---- MODULE Spec2Model ----
(***************************************************************************)
(* A model of the client-side batch upload service                         *)
(* (client/src/services/uploadService.js), of the generic worker pool      *)
(* runWithConcurrencyLimit and of the image and favorite stores            *)
(* (source part_000).                                                      *)
(*                                                                         *)
(* JavaScript runs each continuation to completion; a function suspends    *)
(* only at an `await`.  Every action below is one continuation: from the   *)
(* resumption of an awaited promise to the next `await` or return.         *)
(* Array indexes are zero-based, as in the source.                         *)
(***************************************************************************)
EXTENDS Integers, Sequences, FiniteSets, TLC

\* ---------------------------------------------------------------- bounds
\* uploadFiles is called with at most MaxFiles files, options.concurrency at
\* most MaxConcurrency and options.retries at most MaxRetries.
MaxFiles == 2
MaxConcurrency == 2
MaxRetries == 2
\* runWithConcurrencyLimit is called with at most MaxTasks tasks.
MaxTasks == 3
\* The server holds at most MaxImages images, with ids 1..MaxImages.
MaxImages == 3
\* deleteImages is called with at most MaxBatch image ids.
MaxBatch == 2
\* Favorites are drawn from the image ids 1..MaxFavIds, and at most
\* MaxInFlight favorite mutations await their remote call at a time.
MaxFavIds == 2
MaxInFlight == 2
\* A behaviour of the favorite store holds at most MaxCalls mutation calls.
MaxCalls == 2
\* The requests of one batch notify their progress at most MaxNotifications
\* times in all.
MaxNotifications == 2
\* The most attempts a call allows when the backoff delays are examined.
MaxAttempts == 4
\* The most upload requests the server handles at a time.
MaxRequests == 3
\* At most MaxFetches list requests of the image store overlap.
MaxFetches == 2

\* ------------------------------------------------------ program constants
\* uploadSingleFile: const maxSize = 10 * 1024 * 1024
maxSize == 10485760
\* uploadSingleFile: setTimeout(resolve, 1000 * (attempt + 1))
baseDelay == 1000

\* A MIME type "main/sub" is the record [main, sub].
ImagePng == [main |-> "image", sub |-> "png"]
TextPlain == [main |-> "text", sub |-> "plain"]
\* validateFile: allowedTypes = ['image/*']
allowedTypes == {[main |-> "image", sub |-> "*"]}

\* The files the batches are drawn from: an ordinary image, an image of
\* exactly the size limit, one of a byte more, and a small text file.
FileKinds ==
  {[size |-> 100, type |-> ImagePng],
   [size |-> maxSize, type |-> ImagePng],
   [size |-> maxSize + 1, type |-> ImagePng],
   [size |-> 100, type |-> TextPlain]}

\* The ways one network attempt can fail (uploadSingleFile, lines 77-82, 99):
\*   "payload"  the request rejects and error.response.data.error is set
\*   "message"  the request rejects with only error.message set
\*   "bare"     the request rejects with neither
\*   "nosrc"    the request resolves but the response has no result.src
AttemptFailures == {"payload", "message", "bare", "nosrc"}

VARIABLES
  \* ---- uploadFiles(files, onProgress, {concurrency, retries})
  files,        \* [0..N-1 -> [name, size, type]]
  concurrency,  \* options.concurrency
  retries,      \* options.retries
  index,        \* runWithConcurrency: let index
  completed,    \* runWithConcurrency: let completed
  results,      \* runWithConcurrency: const results (a sparse array)
  workers,      \* the runTask() calls: [1..W -> [pc, currentIndex]]
  tasks,        \* the uploadSingleFile call of each item: its position (phase),
                \* `attempt`, its return value, and a record of what it did:
                \* requests issued (netCalls), backoff delays, attempt outcomes
                \* (log), and the value of `completed` when it was stored (order)
  ret,          \* what uploadFiles returned, NoRet while it runs
  onProgress,   \* TRUE when the caller passed a progress callback
  fileProgress, \* runWithConcurrency: const fileProgress, bytes per item
  uploadedSizeCache, \* runWithConcurrency: let uploadedSizeCache
  itemPercent,  \* the percent the request in flight for each item last
                \* notified, 0 when it has notified nothing
  notifications, \* the number of progress notifications of the batch so far
  throttle,     \* createThrottle's closure: lastArgs, the timer (timeoutId)
                \* and whether `now - lastCall >= delay` holds (windowOpen)
  delivered,    \* what the caller's callback has seen: the event of its
                \* latest call, the number of events with percent 100, and
                \* how each event compared with the one before it
  \* ---- runWithConcurrencyLimit(tasks, limit)
  ptasks,       \* tasks: [0..n-1 -> image id], task i is axios.delete of that id
  plimit,       \* limit
  pindex,       \* let index
  presults,     \* const results (a sparse array)
  pworkers,     \* the runTask() calls: [1..W -> [pc, currentIndex]]
  pstate,       \* the promise of each task: [phase, outcome, value]
  pret,         \* what the pool returned, NoRet while it runs
  \* ---- useImageStore
  img,          \* the store's state
  remoteImages, \* the ids of the images the server holds
  di,           \* the deleteImages call: [pc, imageIds, before, ret]
  deleting,     \* the ids whose deleteImage call awaits its request
  fetching,     \* the fetchImages calls that overlap, in the order of their calls
  \* ---- useFavoriteStore
  fav,          \* the store's state: [favorites, favoriteImages, isLoading, error]
  remoteFav,    \* the ids the server holds as favorites
  calls,        \* the mutations awaiting their remote call: [1..MaxInFlight -> call]
  lastEvent,    \* the latest step of a mutation: the call, or the return and
                \* what was returned, with the mutation when it failed
  ncalls,       \* the number of mutation calls made so far
  \* ---- the server's upload handler (one authenticated user)
  storedKeys,   \* the file keys put into env.img_url with their metadata
  userFilesKV,  \* the value at `user:${userId}:files`: the list of file ids
  handlers      \* the upload(c) calls: [1..n -> [pc, userFiles]]

progressVars == <<onProgress, fileProgress, uploadedSizeCache, itemPercent, notifications,
                  throttle, delivered>>
uploadVars == <<files, concurrency, retries, index, completed, results, workers, tasks, ret,
                progressVars>>
poolVars == <<ptasks, plimit, pindex, presults, pworkers, pstate, pret>>
imageVars == <<img, remoteImages, di, deleting, fetching>>
favVars == <<fav, remoteFav, calls, lastEvent, ncalls>>
serverVars == <<storedKeys, userFilesKV, handlers>>

vars == <<uploadVars, poolVars, imageVars, favVars, serverVars>>

Min(a, b) == IF a < b THEN a ELSE b

\* ------------------------------------------------------------ JS values
\* A slot of a sparse array that was never assigned.
Hole == [hole |-> TRUE]
\* The value `undefined` (what an async function returns without `return`).
UndefinedV == [undefined |-> TRUE]
\* The value `null`.
NullV == [null |-> TRUE]
\* A call's return: not called, running (its promise pending), or returned.
NotCalled == [state |-> "notCalled"]
NoRet == [state |-> "pending"]
Returned(v) == [state |-> "returned", value |-> v]

N == Cardinality(DOMAIN files)

\* A failed attempt's error object.  `attempt` stands for the text that tells
\* one attempt's error from another's: the environment may report a
\* different error on every attempt.
AttemptError(kind, attempt) == [kind |-> kind, attempt |-> attempt]

\* error.response?.data?.error || error.message || <generic message>
\* (line 99).  An error thrown at line 81 carries the message given there.
\* The source's Chinese messages are written here in English.
ErrorMessage(err) ==
  CASE err.kind = "payload" -> <<"response.data.error", err.attempt>>
    [] err.kind = "message" -> <<"error.message", err.attempt>>
    [] err.kind = "nosrc"   -> <<"upload failed: malformed server response", err.attempt>>
    [] OTHER                -> <<"upload failed">>

\* The failure Result of uploadSingleFile (lines 63-69 and 94-100).
FailureResult(file, msg) ==
  [success |-> FALSE, filename |-> file.name, size |-> file.size,
   type |-> file.type, error |-> msg]

\* The success Result of uploadSingleFile (lines 84-91).
SuccessResult(file) ==
  [success |-> TRUE, filename |-> file.name, size |-> file.size,
   type |-> file.type, data |-> [src |-> file.name]]

SizeLimitMessage == <<"file size must not exceed 10MB">>

\* The state of an item whose task has not been called yet.
Unclaimed ==
  [phase |-> "unclaimed", attempt |-> 0, value |-> UndefinedV,
   netCalls |-> 0, delays |-> <<>>, log |-> <<>>, order |-> 0]

\* As StartUpload, without the size check.
StartUpload_NoSizeCheck(file, R) ==
  IF 0 < R
  THEN [Unclaimed EXCEPT !.phase = "uploading", !.netCalls = 1]
  ELSE [Unclaimed EXCEPT !.phase = "returned"]

\* uploadSingleFile(file, retries, onProgress) up to its first await
\* (lines 59-77): the size check, then the first pass of the retry loop.
StartUpload(file, R) ==
  IF file.size > maxSize
  THEN [Unclaimed EXCEPT !.phase = "returned",
                         !.value = FailureResult(file, SizeLimitMessage)]
  ELSE IF 0 < R
       THEN [Unclaimed EXCEPT !.phase = "uploading", !.netCalls = 1]
       ELSE [Unclaimed EXCEPT !.phase = "returned"]

\* As ClaimNext, but with `if` for `while`: a worker runs one task only.
ClaimNext_Once(w, wk, t, ix) ==
  /\ index' = ix
  /\ workers' = [wk EXCEPT ![w] = [pc |-> "done", currentIndex |-> wk[w].currentIndex]]
  /\ tasks' = t

\* As ClaimNext, but reading the cursor without advancing it
\* (tasks[index] for tasks[index++]).
ClaimNext_NoAdvance(w, wk, t, ix) ==
  IF ix < N
  THEN /\ index' = ix
       /\ workers' = [wk EXCEPT ![w] = [pc |-> "await_task", currentIndex |-> ix]]
       /\ tasks' = [t EXCEPT ![ix] = StartUpload(files[ix], retries)]
  ELSE /\ index' = ix
       /\ workers' = [wk EXCEPT ![w] = [pc |-> "done", currentIndex |-> wk[w].currentIndex]]
       /\ tasks' = t

\* runTask's loop head (lines 130-137): claim the next index and call its
\* task, or leave the loop.  `t` and `ix` are tasks and index as the caller
\* left them.
ClaimNext(w, wk, t, ix) ==
  IF ix < N
  THEN /\ index' = ix + 1
       /\ workers' = [wk EXCEPT ![w] = [pc |-> "await_task", currentIndex |-> ix]]
       /\ tasks' = [t EXCEPT ![ix] = StartUpload(files[ix], retries)]
  ELSE /\ index' = ix
       /\ workers' = [wk EXCEPT ![w] = [pc |-> "done", currentIndex |-> wk[w].currentIndex]]
       /\ tasks' = t

\* As StoreResult, but appending in completion order (results.push(result)).
StoreResult_Push(res, i, value) ==
  [res EXCEPT ![CHOOSE k \in DOMAIN res :
                  res[k] = Hole /\ \A j \in DOMAIN res : res[j] = Hole => k <= j] = value]

\* results[currentIndex] = result   (lines 158 and 178)
StoreResult(res, i, value) == [res EXCEPT ![i] = value]

\* As NumWorkers, but one worker per task (Array(tasks.length)).
NumWorkers_PerTask(K, n) == n

\* Array(Math.min(concurrency, tasks.length))   (line 193)
NumWorkers(K, n) == Min(K, n)

\* results.length: one more than the last assigned index of the array.
ArrayLength(res) ==
  IF \A i \in DOMAIN res : res[i] = Hole THEN 0
  ELSE 1 + CHOOSE i \in DOMAIN res :
             /\ res[i] # Hole
             /\ \A j \in DOMAIN res : res[j] # Hole => j <= i

\* results.filter(r => r.success) and results.filter(r => !r.success)
\* (lines 235-236); filter skips the holes of a sparse array.
SuccessResults_Truthy(res) == {i \in DOMAIN res : res[i] # Hole /\ res[i] # UndefinedV}

SuccessResults(res) == {i \in DOMAIN res : res[i] # Hole /\ res[i].success}
FailedResults(res) == {i \in DOMAIN res : res[i] # Hole /\ ~res[i].success}

\* As UploadFilesResult, but a failed item fails the batch.
UploadFilesResult_FailFast(res) ==
  IF \E i \in DOMAIN res : res[i] = UndefinedV \/ (res[i] # Hole /\ ~res[i].success)
  THEN [success |-> FALSE, error |-> "batch upload failed", data |-> <<>>]
  ELSE [success |-> TRUE,
        data |-> res,
        summary |-> [total |-> ArrayLength(res),
                     success |-> Cardinality(SuccessResults(res)),
                     failed |-> Cardinality(FailedResults(res))]]

\* The body of uploadFiles after runWithConcurrency resolved (lines 235-253).
\* Reading r.success of an `undefined` element throws a TypeError, which the
\* catch turns into the failure shape.
UploadFilesResult(res) ==
  IF \E i \in DOMAIN res : res[i] = UndefinedV
  THEN [success |-> FALSE,
        error |-> "Cannot read properties of undefined (reading 'success')",
        data |-> <<>>]
  ELSE [success |-> TRUE,
        data |-> res,
        summary |-> [total |-> ArrayLength(res),
                     success |-> Cardinality(SuccessResults(res)),
                     failed |-> Cardinality(FailedResults(res))]]

\* validateFile(file, {maxSize, allowedTypes}) with its default options
\* (lines 267-295).  file.type.startsWith(mainType) compares the main type.
validateFile(file) ==
  LET sizeErrors == IF file.size > maxSize THEN <<SizeLimitMessage>> ELSE <<>>
      isValidType == \E t \in allowedTypes :
                       IF t.sub = "*" THEN file.type.main = t.main
                       ELSE file.type = t
      typeErrors == IF ~isValidType THEN <<(<<"unsupported file type">>)>> ELSE <<>>
      errors == sizeErrors \o typeErrors
  IN [isValid |-> Len(errors) = 0, errors |-> errors]

\* --------------------------------------------------------------- progress
\* Number.NaN, the value of 0 / 0 (a value that is no percent).
NaN == 0 - 1

\* const totalSize = files.reduce((sum, file) => sum + file.size, 0)
\* (line 119)
RECURSIVE SumSizes(_, _)
SumSizes(fs, n) == IF n = 0 THEN 0 ELSE fs[n - 1].size + SumSizes(fs, n - 1)

totalSize == SumSizes(files, N)

\* Math.round((uploadedSizeCache / totalSize) * 100)   (lines 145, 168).
\* Math.round rounds a half up; 0 / 0 is NaN and Math.round(NaN) is NaN.
TotalPercent(cache, total) ==
  IF total = 0 THEN NaN ELSE (200 * cache + total) \div (2 * total)

\* Math.min(totalPercent, 99)   (lines 151, 172); Math.min(NaN, 99) is NaN.
CapAt99(p) == IF p = NaN THEN NaN ELSE Min(p, 99)

\* The event the per-item callback passes on (lines 148-154).
ItemEvent(done, cache, i) ==
  [completed |-> done, total |-> N,
   percent |-> CapAt99(TotalPercent(cache, totalSize)),
   currentIndex |-> i, result |-> NullV]

\* As CompletionEvent, but with 100 as soon as the bytes are all counted.
CompletionEvent_Uncapped(done, cache, i, result) ==
  [completed |-> done, total |-> N,
   percent |-> TotalPercent(cache, totalSize),
   currentIndex |-> i, result |-> result]

\* The event runTask passes on when a task has returned (lines 168-175).
CompletionEvent(done, cache, i, result) ==
  [completed |-> done, total |-> N,
   percent |-> IF done = N THEN 100 ELSE CapAt99(TotalPercent(cache, totalSize)),
   currentIndex |-> i, result |-> result]

\* The event runWithConcurrency sends last (lines 203-209):
\* results[results.length - 1] is undefined for an empty array.
TerminalEvent(res) ==
  [completed |-> N, total |-> N, percent |-> 100, currentIndex |-> N - 1,
   result |-> IF ArrayLength(res) = 0 THEN UndefinedV ELSE res[ArrayLength(res) - 1]]

\* createThrottle's state at creation (lines 14-16): lastCall = 0, so the
\* first call finds now - lastCall >= delay.
NewThrottle == [lastArgs |-> NullV, timer |-> "none", windowOpen |-> TRUE]

\* As Throttled, but recording the arguments only when it sets the timer.
Throttled_KeepFirst(th, args) ==
  IF th.windowOpen
  THEN [th |-> [th EXCEPT !.windowOpen = FALSE], out |-> <<args>>]
  ELSE IF th.timer = "none"
       THEN [th |-> [th EXCEPT !.lastArgs = args, !.timer = "waiting"], out |-> <<>>]
       ELSE [th |-> th, out |-> <<>>]

\* throttled(args) (lines 18-35): the new closure state and the events fn
\* is called with.  The timer is set for the instant the window opens.
Throttled(th, args) ==
  IF th.windowOpen
  THEN [th |-> [th EXCEPT !.lastArgs = args, !.windowOpen = FALSE], out |-> <<args>>]
  ELSE IF th.timer = "none"
       THEN [th |-> [th EXCEPT !.lastArgs = args, !.timer = "waiting"], out |-> <<>>]
       ELSE [th |-> [th EXCEPT !.lastArgs = args], out |-> <<>>]

\* As Flush, but leaving the timer set.
Flush_KeepTimer(th) ==
  [th |-> [th EXCEPT !.lastArgs = NullV],
   out |-> IF th.lastArgs # NullV THEN <<th.lastArgs>> ELSE <<>>]

\* throttled.flush() (lines 38-47).
Flush(th) ==
  [th |-> [th EXCEPT !.timer = "none", !.lastArgs = NullV],
   out |-> IF th.lastArgs # NullV THEN <<th.lastArgs>> ELSE <<>>]

\* As TimerCallback, but without the call of fn.
TimerCallback_NoCall(th) ==
  [th |-> [th EXCEPT !.timer = "none", !.windowOpen = FALSE], out |-> <<>>]

\* The timer's callback (lines 27-33).
TimerCallback(th) ==
  [th |-> [th EXCEPT !.timer = "none", !.windowOpen = FALSE],
   out |-> IF th.lastArgs # NullV THEN <<th.lastArgs>> ELSE <<>>]

\* At least `delay` has passed since lastCall: the window is open and a
\* timer that was waiting for that instant is due.
DelayPassed(th) ==
  [th EXCEPT !.windowOpen = TRUE,
             !.timer = IF @ = "waiting" THEN "due" ELSE @]

\* What the caller's callback has seen before its first call.
NothingDelivered ==
  [last |-> NullV, hundreds |-> 0, completedSorted |-> TRUE, percentSorted |-> TRUE,
   earlyHundred |-> FALSE, lowAfterHundred |-> FALSE, tooSoon |-> FALSE,
   invoked |-> NullV, owed |-> FALSE, stale |-> FALSE, idleFlush |-> FALSE]

\* The callback's record after one more call, with event e, made when
\* `done` tasks had settled.  A NaN percent is compared with nothing.
Observe(d, e, done) ==
  [last |-> e,
   hundreds |-> d.hundreds + (IF e.percent = 100 THEN 1 ELSE 0),
   completedSorted |-> d.completedSorted /\ (d.last = NullV \/ d.last.completed <= e.completed),
   percentSorted |-> d.percentSorted /\ (\/ d.last = NullV
                                         \/ d.last.percent = NaN \/ e.percent = NaN
                                         \/ d.last.percent <= e.percent),
   earlyHundred |-> d.earlyHundred \/ (e.percent = 100 /\ done < N),
   lowAfterHundred |-> d.lowAfterHundred \/ (d.hundreds > 0 /\ e.percent # 100),
   tooSoon |-> d.tooSoon, invoked |-> d.invoked, owed |-> d.owed, stale |-> d.stale,
   idleFlush |-> d.idleFlush]

\* The record after the calls with the events of `out`, in order (one
\* continuation makes at most two).
Deliver(d, out, done) ==
  IF Len(out) = 0 THEN d
  ELSE IF Len(out) = 1 THEN Observe(d, out[1], done)
  ELSE Observe(Observe(d, out[1], done), out[2], done)

\* The record after throttled(args) made the calls of `out`: args are the
\* latest the throttle was given, and are owed to the callback unless
\* throttled called it at once.
Invoked(d, args, out) ==
  [d EXCEPT !.invoked = args, !.owed = (out = <<>>)]

\* The record after the timer or flush made the calls of `out`: the latest
\* arguments are owed no more when they are what was delivered, and a call
\* with other arguments is a stale one.
DeferredCall(d, out) ==
  [d EXCEPT !.owed = @ /\ (out = <<>> \/ out[1] # d.invoked),
            !.stale = @ \/ (out # <<>> /\ out[1] # d.invoked)]

\* The record after flush, run on the throttle th, made the calls of `out`;
\* it notes a call made when no timer was set.
FlushCall(d, th, out) ==
  [DeferredCall(d, out) EXCEPT !.idleFlush = @ \/ (th.timer = "none" /\ out # <<>>)]

\* ------------------------------------------------------------ uploadFiles
\* The state when uploadFiles has run up to `await Promise.all(workers)`:
\* the tasks are built (line 230) and each of the workers has synchronously
\* claimed one index and called its task (lines 193-195).
FileLists ==
  UNION {[0..(n - 1) -> FileKinds] : n \in 0..MaxFiles}

UploadFilesCalled(kinds, K, R, cb) ==
    LET fs == [i \in DOMAIN kinds |->
                 [name |-> i, size |-> kinds[i].size, type |-> kinds[i].type]]
        n  == Cardinality(DOMAIN kinds)
        W  == NumWorkers(K, n)
    IN /\ files = fs
       /\ concurrency = K
       /\ retries = R
       /\ completed = 0
       /\ results = [i \in DOMAIN kinds |-> Hole]
       /\ index = W
       /\ workers = [w \in 1..W |-> [pc |-> "await_task", currentIndex |-> w - 1]]
       /\ tasks = [i \in DOMAIN kinds |->
                     IF i < W THEN StartUpload(fs[i], R) ELSE Unclaimed]
       /\ ret = NoRet
       /\ onProgress = cb
       /\ fileProgress = [i \in DOMAIN kinds |-> 0]
       /\ uploadedSizeCache = 0
       /\ itemPercent = [i \in DOMAIN kinds |-> 0]
       /\ notifications = 0
       /\ throttle = NewThrottle
       /\ delivered = NothingDelivered

\* uploadFiles called without a progress callback.
InitUpload ==
  \E kinds \in FileLists, K \in 0..MaxConcurrency, R \in 0..MaxRetries :
    UploadFilesCalled(kinds, K, R, FALSE)

\* if (attempt === retries - 1)   (line 93)
IsLastAttempt_First(attempt, R) == attempt = 0

IsLastAttempt(attempt, R) == attempt = R - 1

\* `await upload(...)` resolves with a response that holds result.src:
\* uploadSingleFile returns the success Result (lines 77-91).
UploadResolves(i) ==
  /\ tasks[i].phase = "uploading"
  /\ tasks' = [tasks EXCEPT ![i].phase = "returned",
                            ![i].log = Append(@, "ok"),
                            ![i].value = SuccessResult(files[i])]
  /\ UNCHANGED <<files, concurrency, retries, index, completed, results, workers, ret>>
  /\ UNCHANGED progressVars
  /\ UNCHANGED <<poolVars, imageVars, favVars, serverVars>>

\* As BackoffDelay, but exponential: 1000 * 2 ** attempt.
BackoffDelay_Exponential(attempt) == baseDelay * 2 ^ attempt

\* setTimeout(resolve, 1000 * (attempt + 1))   (line 103)
BackoffDelay(attempt) == baseDelay * (attempt + 1)

\* As UploadFails, but without the check of result.src (lines 80-82): a
\* response that has no src is returned as a success.
UploadFails_NoSrcCheck(i, kind) ==
  /\ tasks[i].phase = "uploading"
  /\ IF kind = "nosrc"
     THEN tasks' = [tasks EXCEPT ![i].phase = "returned",
                                 ![i].log = Append(@, "ok"),
                                 ![i].value = SuccessResult(files[i])]
     ELSE IF IsLastAttempt(tasks[i].attempt, retries)
     THEN tasks' = [tasks EXCEPT ![i].phase = "returned",
                                 ![i].log = Append(@, "fail"),
                                 ![i].value = FailureResult(files[i],
                                     ErrorMessage(AttemptError(kind, tasks[i].attempt)))]
     ELSE tasks' = [tasks EXCEPT ![i].phase = "backoff",
                                 ![i].log = Append(@, "fail"),
                                 ![i].delays = Append(@, BackoffDelay(tasks[i].attempt))]
  /\ UNCHANGED <<files, concurrency, retries, index, completed, results, workers, ret>>
  /\ UNCHANGED progressVars
  /\ UNCHANGED <<poolVars, imageVars, favVars, serverVars>>

\* The attempt fails (the request rejects, or the response has no src and
\* line 81 throws): the catch returns the failure Result on the last
\* attempt and otherwise starts the backoff timer (lines 92-103).
UploadFails(i, kind) ==
  /\ tasks[i].phase = "uploading"
  /\ IF IsLastAttempt(tasks[i].attempt, retries)
     THEN tasks' = [tasks EXCEPT ![i].phase = "returned",
                                 ![i].log = Append(@, "fail"),
                                 ![i].value = FailureResult(files[i],
                                     ErrorMessage(AttemptError(kind, tasks[i].attempt)))]
     ELSE tasks' = [tasks EXCEPT ![i].phase = "backoff",
                                 ![i].log = Append(@, "fail"),
                                 ![i].delays = Append(@, BackoffDelay(tasks[i].attempt))]
  /\ UNCHANGED <<files, concurrency, retries, index, completed, results, workers, ret>>
  /\ UNCHANGED progressVars
  /\ UNCHANGED <<poolVars, imageVars, favVars, serverVars>>

\* The backoff timer fires: attempt++ and the next pass of the loop issues
\* the request again (lines 75-77, 103).  The new request has notified
\* nothing yet, and the backoff (a second or more) is longer than the
\* throttle's delay.
BackoffElapses(i) ==
  /\ tasks[i].phase = "backoff"
  /\ tasks' = [tasks EXCEPT ![i].phase = "uploading",
                            ![i].attempt = @ + 1,
                            ![i].netCalls = @ + 1]
  /\ itemPercent' = [itemPercent EXCEPT ![i] = 0]
  /\ throttle' = DelayPassed(throttle)
  /\ UNCHANGED <<onProgress, fileProgress, uploadedSizeCache, notifications, delivered>>
  /\ UNCHANGED <<files, concurrency, retries, index, completed, results, workers, ret>>
  /\ UNCHANGED <<poolVars, imageVars, favVars, serverVars>>

\* `await task(...)` resumes in runTask with the task's return value: the
\* worker stores it, counts it, counts the item's bytes as uploaded, passes
\* the completion event to the throttle and goes round its loop
\* (lines 158-176, 130).
WorkerResumes(w) ==
  /\ workers[w].pc = "await_task"
  /\ LET i == workers[w].currentIndex
         cache == uploadedSizeCache + (files[i].size - fileProgress[i])
         t == IF onProgress
              THEN Throttled(throttle,
                             CompletionEvent(completed + 1, cache, i, tasks[i].value))
              ELSE [th |-> throttle, out |-> <<>>]
     IN
       /\ tasks[i].phase = "returned"
       /\ results' = StoreResult(results, i, tasks[i].value)
       /\ completed' = completed + 1
       /\ fileProgress' = [fileProgress EXCEPT ![i] = files[i].size]
       /\ uploadedSizeCache' = cache
       /\ throttle' = t.th
       /\ delivered' = IF onProgress
                       THEN Invoked(Deliver(delivered, t.out, completed + 1),
                                    CompletionEvent(completed + 1, cache, i, tasks[i].value),
                                    t.out)
                       ELSE delivered
       /\ ClaimNext(w, workers,
                    [tasks EXCEPT ![i].phase = "stored", ![i].order = completed + 1],
                    index)
  /\ UNCHANGED <<files, concurrency, retries, ret, onProgress, itemPercent, notifications>>
  /\ UNCHANGED <<poolVars, imageVars, favVars, serverVars>>

\* Promise.all(workers) resolves, runWithConcurrency flushes the throttle,
\* sends the terminal event and returns results, and uploadFiles builds
\* its return value (lines 197-212, 233-253).
UploadFilesReturns ==
  /\ ret = NoRet
  /\ \A w \in DOMAIN workers : workers[w].pc = "done"
  /\ ret' = Returned(UploadFilesResult(results))
  /\ IF onProgress
     THEN /\ throttle' = Flush(throttle).th
          /\ delivered' = FlushCall(
                            Deliver(delivered,
                                    Flush(throttle).out \o <<TerminalEvent(results)>>,
                                    completed),
                            throttle, Flush(throttle).out)
     ELSE UNCHANGED <<throttle, delivered>>
  /\ UNCHANGED <<onProgress, fileProgress, uploadedSizeCache, itemPercent, notifications>>
  /\ UNCHANGED <<files, concurrency, retries, index, completed, results, workers, tasks>>
  /\ UNCHANGED <<poolVars, imageVars, favVars, serverVars>>

NextUpload ==
  \/ \E i \in DOMAIN files : UploadResolves(i)
  \/ \E i \in DOMAIN files, kind \in AttemptFailures : UploadFails(i, kind)
  \/ \E i \in DOMAIN files : BackoffElapses(i)
  \/ \E w \in DOMAIN workers : WorkerResumes(w)
  \/ UploadFilesReturns

\* The percents a request notifies its onProgress callback with, each
\* higher than the one before.
ItemPercents == {50, 100}

UploadNotifies(i, percent) ==
  /\ notifications < MaxNotifications
  /\ tasks[i].phase = "uploading"
  /\ percent \in ItemPercents
  /\ percent > itemPercent[i]

\* The callback runTask hands to its task (lines 137-156), called by the
\* request in flight for item i with `percent`.
ItemProgress(i, percent) ==
  /\ ret = NoRet
  /\ UploadNotifies(i, percent)
  /\ LET newProgress == (files[i].size * percent) \div 100
         cache == uploadedSizeCache + (newProgress - fileProgress[i])
         t == IF onProgress
              THEN Throttled(throttle, ItemEvent(completed, cache, i))
              ELSE [th |-> throttle, out |-> <<>>]
     IN /\ fileProgress' = [fileProgress EXCEPT ![i] = newProgress]
        /\ uploadedSizeCache' = cache
        /\ throttle' = t.th
        /\ delivered' = IF onProgress
                        THEN Invoked(Deliver(delivered, t.out, completed),
                                     ItemEvent(completed, cache, i), t.out)
                        ELSE delivered
  /\ itemPercent' = [itemPercent EXCEPT ![i] = percent]
  /\ notifications' = notifications + 1
  /\ UNCHANGED <<files, concurrency, retries, index, completed, results, workers,
                 tasks, ret, onProgress>>
  /\ UNCHANGED <<poolVars, imageVars, favVars, serverVars>>

\* The throttle's delay has passed since lastCall (line 22).
WindowElapses ==
  /\ ret = NoRet
  /\ ~throttle.windowOpen
  /\ throttle' = DelayPassed(throttle)
  /\ UNCHANGED <<files, concurrency, retries, index, completed, results, workers,
                 tasks, ret, onProgress, fileProgress, uploadedSizeCache,
                 itemPercent, notifications, delivered>>
  /\ UNCHANGED <<poolVars, imageVars, favVars, serverVars>>

\* The throttle's timer fires (lines 27-33), at its deadline or later; the
\* callback's record notes a call made before `delay` has passed since
\* lastCall.  A timer's callback is a task
\* of its own: it does not run between the last worker's return and the
\* continuation of `await Promise.all(workers)`.
TimerFires ==
  /\ throttle.timer = "due"
  /\ ret = NoRet => \E w \in DOMAIN workers : workers[w].pc # "done"
  /\ throttle' = TimerCallback(throttle).th
  /\ delivered' = [DeferredCall(Deliver(delivered, TimerCallback(throttle).out, completed),
                                   TimerCallback(throttle).out)
                      EXCEPT !.tooSoon = @ \/ (TimerCallback(throttle).out # <<>>
                                                /\ ~throttle.windowOpen)]
  /\ UNCHANGED <<files, concurrency, retries, index, completed, results, workers,
                 tasks, ret, onProgress, fileProgress, uploadedSizeCache, itemPercent,
                 notifications>>
  /\ UNCHANGED <<poolVars, imageVars, favVars, serverVars>>

\* The batches of the progress specification: files of no bytes and files
\* of a hundred, with requests that fail with a message.
ProgressFileKinds == {[size |-> 0, type |-> ImagePng], [size |-> 100, type |-> ImagePng]}

ProgressFileLists ==
  UNION {[0..(n - 1) -> ProgressFileKinds] : n \in 0..MaxFiles}

ProgressFailures == {"message"}

NextProgress ==
  \/ \E i \in DOMAIN files : UploadResolves(i)
  \/ \E i \in DOMAIN files, kind \in ProgressFailures : UploadFails(i, kind)
  \/ \E i \in DOMAIN files : BackoffElapses(i)
  \/ \E w \in DOMAIN workers : WorkerResumes(w)
  \/ UploadFilesReturns
  \/ \E i \in DOMAIN files, percent \in ItemPercents : ItemProgress(i, percent)
  \/ WindowElapses
  \/ TimerFires

\* uploadFiles is not running.
UploadIdle ==
  /\ files = <<>> /\ concurrency = 0 /\ retries = 0 /\ index = 0
  /\ completed = 0 /\ results = <<>> /\ workers = <<>> /\ tasks = <<>>
  /\ ret = NotCalled
  /\ onProgress = FALSE /\ fileProgress = <<>> /\ uploadedSizeCache = 0
  /\ itemPercent = <<>> /\ notifications = 0 /\ throttle = NewThrottle /\ delivered = NothingDelivered

\* ------------------------------------------------ runWithConcurrencyLimit
ImageIds == 1..MaxImages

PN == Cardinality(DOMAIN ptasks)

\* The response of a fulfilled axios.delete(`/api/images/${id}`).
DeleteResponse(id) == [status |-> 200, url |-> id]

\* results[currentIndex] = { error: error.message }   (line 17)
ErrorSlot(msg) == [error |-> msg]

\* const currentIndex = index++  and  results[currentIndex] = ...  (lines 13-17)
PoolStore(res, i, value) == [res EXCEPT ![i] = value]

\* Array(Math.min(limit, tasks.length))   (line 23)
PoolWorkers(limit, n) == Min(limit, n)

\* The pool called with tasks `ids` and `limit`, run up to
\* `await Promise.all(workers)`: each worker has claimed one index and its
\* request is in flight (lines 8-27).
PoolCalled(ids, limit) ==
  LET n == Cardinality(DOMAIN ids)
      W == PoolWorkers(limit, n)
  IN /\ ptasks' = ids
     /\ plimit' = limit
     /\ pindex' = W
     /\ presults' = [i \in DOMAIN ids |-> Hole]
     /\ pworkers' = [w \in 1..W |-> [pc |-> "await_task", currentIndex |-> w - 1]]
     /\ pstate' = [i \in DOMAIN ids |->
                     [phase |-> IF i < W THEN "running" ELSE "unclaimed",
                      outcome |-> "none", value |-> UndefinedV]]
     /\ pret' = NoRet

PoolIdle ==
  /\ ptasks = <<>> /\ plimit = 0 /\ pindex = 0 /\ presults = <<>>
  /\ pworkers = <<>> /\ pstate = <<>> /\ pret = NotCalled

\* The request of task i is fulfilled: the server has deleted the image.
PoolTaskResolves(i) ==
  /\ pstate[i].phase = "running"
  /\ pstate' = [pstate EXCEPT ![i] = [phase |-> "settled", outcome |-> "fulfilled",
                                      value |-> DeleteResponse(ptasks[i])]]
  /\ remoteImages' = remoteImages \ {ptasks[i]}
  /\ UNCHANGED <<ptasks, plimit, pindex, presults, pworkers, pret, img, di, deleting, fetching>>
  /\ UNCHANGED <<uploadVars, favVars, serverVars>>

\* The request of task i is rejected with error.message = msg; the server
\* has deleted nothing.
PoolTaskRejects(i, msg) ==
  /\ pstate[i].phase = "running"
  /\ pstate' = [pstate EXCEPT ![i] = [phase |-> "settled", outcome |-> "rejected",
                                      value |-> msg]]
  /\ UNCHANGED <<ptasks, plimit, pindex, presults, pworkers, pret, imageVars>>
  /\ UNCHANGED <<uploadVars, favVars, serverVars>>

\* As PoolWorkerResumes, but without the try/catch: a rejection leaves
\* runTask, so the worker stops and the slot stays empty.
PoolWorkerResumes_NoCatch(w) ==
  /\ pworkers[w].pc = "await_task"
  /\ LET i == pworkers[w].currentIndex
     IN /\ pstate[i].phase = "settled"
        /\ IF pstate[i].outcome = "rejected"
           THEN /\ presults' = presults
                /\ pindex' = pindex
                /\ pworkers' = [pworkers EXCEPT ![w].pc = "done"]
                /\ pstate' = [pstate EXCEPT ![i].phase = "stored"]
           ELSE /\ presults' = PoolStore(presults, i, pstate[i].value)
                /\ IF pindex < PN
                   THEN /\ pindex' = pindex + 1
                        /\ pworkers' = [pworkers EXCEPT ![w].currentIndex = pindex]
                        /\ pstate' = [pstate EXCEPT ![i].phase = "stored",
                                                    ![pindex].phase = "running"]
                   ELSE /\ pindex' = pindex
                        /\ pworkers' = [pworkers EXCEPT ![w].pc = "done"]
                        /\ pstate' = [pstate EXCEPT ![i].phase = "stored"]
  /\ UNCHANGED <<ptasks, plimit, pret, imageVars>>
  /\ UNCHANGED <<uploadVars, favVars, serverVars>>

\* `await tasks[currentIndex]()` resumes in runTask: the value is stored, or
\* the catch stores the error, and the worker goes round its loop
\* (lines 12-19).
PoolWorkerResumes(w) ==
  /\ pworkers[w].pc = "await_task"
  /\ LET i == pworkers[w].currentIndex
         slot == IF pstate[i].outcome = "fulfilled" THEN pstate[i].value
                 ELSE ErrorSlot(pstate[i].value)
     IN /\ pstate[i].phase = "settled"
        /\ presults' = PoolStore(presults, i, slot)
        /\ IF pindex < PN
           THEN /\ pindex' = pindex + 1
                /\ pworkers' = [pworkers EXCEPT ![w].currentIndex = pindex]
                /\ pstate' = [pstate EXCEPT ![i].phase = "stored",
                                            ![pindex].phase = "running"]
           ELSE /\ pindex' = pindex
                /\ pworkers' = [pworkers EXCEPT ![w].pc = "done"]
                /\ pstate' = [pstate EXCEPT ![i].phase = "stored"]
  /\ UNCHANGED <<ptasks, plimit, pret, imageVars>>
  /\ UNCHANGED <<uploadVars, favVars, serverVars>>

\* As PoolReturns, but with Promise.race for Promise.all: the pool returns
\* as soon as one worker has left its loop.
PoolReturns_Race ==
  /\ pret = NoRet
  /\ \E w \in DOMAIN pworkers : pworkers[w].pc = "done"
  /\ pret' = Returned(presults)
  /\ UNCHANGED <<ptasks, plimit, pindex, presults, pworkers, pstate, imageVars>>
  /\ UNCHANGED <<uploadVars, favVars, serverVars>>

\* Promise.all(workers) resolves and the pool returns results (lines 27-28).
PoolReturns ==
  /\ pret = NoRet
  /\ \A w \in DOMAIN pworkers : pworkers[w].pc = "done"
  /\ pret' = Returned(presults)
  /\ UNCHANGED <<ptasks, plimit, pindex, presults, pworkers, pstate, imageVars>>
  /\ UNCHANGED <<uploadVars, favVars, serverVars>>

\* The messages a rejected request carries.
RejectMessages == {"Network Error", "Request failed with status code 500"}

NextPool ==
  \/ \E i \in DOMAIN ptasks : PoolTaskResolves(i)
  \/ \E i \in DOMAIN ptasks, msg \in RejectMessages : PoolTaskRejects(i, msg)
  \/ \E w \in DOMAIN pworkers : PoolWorkerResumes(w)
  \/ PoolReturns

\* The arrays of image ids a caller passes: no id twice.
IdArrays(maxLen) ==
  {a \in UNION {[0..(n - 1) -> ImageIds] : n \in 0..maxLen} :
     \A i, j \in DOMAIN a : a[i] = a[j] => i = j}

\* The image store after a completed fetchImages: the list holds the
\* server's images, newest (highest id) first.
RECURSIVE Descending(_)
Descending(S) ==
  IF S = {} THEN <<>>
  ELSE LET m == CHOOSE x \in S : \A y \in S : y <= x
       IN <<m>> \o Descending(S \ {m})

ImageStoreLoaded(ids, selected, mode) ==
  /\ img = [images |-> Descending(ids), selectedImages |-> selected,
            isSelectionMode |-> mode, isLoading |-> FALSE, error |-> "null",
            filters |-> [query |-> ImageIds, tag |-> ImageIds],
            pagination |-> [page |-> 1, total |-> Cardinality(ids)]]
  /\ remoteImages = ids
  /\ di = [pc |-> "idle", imageIds |-> <<>>, before |-> <<>>, ret |-> NotCalled]
  /\ deleting = {} /\ fetching = <<>>

ImagesIdle == ImageStoreLoaded(ImageIds, {}, FALSE)

\* ------------------------------------------------------------ deleteImages
\* deleteImages: runWithConcurrencyLimit(deleteTasks, 5)   (line 202)
deleteConcurrency == 5

Range(f) == {f[x] : x \in DOMAIN f}

\* state.images.filter((img) => !imageIds.includes(img.id))   (line 206)
WithoutImages(images, imageIds) ==
  SelectSeq(images, LAMBDA id : id \notin Range(imageIds))

\* deleteImages(imageIds) up to `await runWithConcurrencyLimit(...)`
\* (lines 194-202): the loading flag is set and the pool has started the
\* first requests.  The pool's variables hold one call at a time, so a
\* deleteImages is started only when none is running.
CallDeleteImages(ids) ==
  /\ di.pc \in {"idle", "returned"}
  /\ img' = [img EXCEPT !.isLoading = TRUE, !.error = "null"]
  /\ di' = [pc |-> "await_pool", imageIds |-> ids, before |-> img.images, ret |-> NoRet]
  /\ PoolCalled(ids, deleteConcurrency)
  /\ UNCHANGED <<remoteImages, deleting, fetching>>
  /\ UNCHANGED <<uploadVars, favVars, serverVars>>

\* The pool has returned and deleteImages resumes (lines 204-213).  The pool
\* never rejects (it stores each task's error in results), so the catch of
\* lines 214-222 is not reached from here.
DeleteImagesResumes ==
  /\ di.pc = "await_pool"
  /\ pret.state = "returned"
  /\ img' = [img EXCEPT !.images = WithoutImages(img.images, di.imageIds),
                        !.selectedImages = {},
                        !.isSelectionMode = FALSE,
                        !.isLoading = FALSE,
                        !.error = "null"]
  /\ di' = [di EXCEPT !.pc = "returned", !.ret = Returned([success |-> TRUE])]
  /\ UNCHANGED <<remoteImages, deleting, fetching>>
  /\ UNCHANGED <<uploadVars, poolVars, favVars, serverVars>>

NextImages ==
  \/ \E ids \in IdArrays(MaxBatch) : CallDeleteImages(ids)
  \/ NextPool
  \/ DeleteImagesResumes

\* ------------------------------------------- useImageStore: the other actions
\* error.response?.data?.error || <the action's message>   (lines 99, 183)
ImageErrorMessage(op, kind) ==
  IF kind = "payload" THEN <<"response.data.error">> ELSE <<op, "failed">>

\* toggleImageSelection(imageId) (lines 262-272), called for a listed image.
toggleImageSelection(imageId) ==
  /\ imageId \in Range(img.images)
  /\ img' = [img EXCEPT !.selectedImages =
                 IF imageId \in @ THEN @ \ {imageId} ELSE @ \cup {imageId}]
  /\ UNCHANGED <<remoteImages, di, deleting, fetching>>
  /\ UNCHANGED <<uploadVars, poolVars, favVars, serverVars>>

\* toggleSelectAll() (lines 275-286): allSelected compares the two sizes.
toggleSelectAll ==
  /\ img' = [img EXCEPT !.selectedImages =
                 IF Cardinality(@) = Len(img.images) THEN {} ELSE Range(img.images)]
  /\ UNCHANGED <<remoteImages, di, deleting, fetching>>
  /\ UNCHANGED <<uploadVars, poolVars, favVars, serverVars>>

\* clearSelection() (lines 289-291).
clearSelection ==
  /\ img' = [img EXCEPT !.selectedImages = {}]
  /\ UNCHANGED <<remoteImages, di, deleting, fetching>>
  /\ UNCHANGED <<uploadVars, poolVars, favVars, serverVars>>

\* deleteImage(imageId) up to `await axios.delete(...)` (lines 169-173),
\* called for a listed image that is not being deleted yet.
deleteImage(imageId) ==
  /\ imageId \in Range(img.images) \ deleting
  /\ img' = [img EXCEPT !.isLoading = TRUE, !.error = "null"]
  /\ deleting' = deleting \cup {imageId}
  /\ UNCHANGED <<remoteImages, di, fetching>>
  /\ UNCHANGED <<uploadVars, poolVars, favVars, serverVars>>

\* The request is fulfilled: the image is filtered out of the list
\* (lines 175-181).
DeleteImageSucceeds(imageId) ==
  /\ imageId \in deleting
  /\ remoteImages' = remoteImages \ {imageId}
  /\ img' = [img EXCEPT !.images = SelectSeq(@, LAMBDA id : id # imageId),
                        !.isLoading = FALSE, !.error = "null"]
  /\ deleting' = deleting \ {imageId}
  /\ UNCHANGED <<di, fetching>>
  /\ UNCHANGED <<uploadVars, poolVars, favVars, serverVars>>

\* The request is rejected (lines 182-190).
DeleteImageFails(imageId, kind) ==
  /\ imageId \in deleting
  /\ img' = [img EXCEPT !.isLoading = FALSE,
                        !.error = ImageErrorMessage("deleteImage", kind)]
  /\ deleting' = deleting \ {imageId}
  /\ UNCHANGED <<remoteImages, di, fetching>>
  /\ UNCHANGED <<uploadVars, poolVars, favVars, serverVars>>

\* A search text or a tag is represented by the set of image ids it
\* matches; the empty text and the empty tag, which are not sent
\* (lines 74-75), match every image.
Queries == {ImageIds} \cup {{id} : id \in ImageIds}
Tags == {ImageIds, {id \in ImageIds : id <= 2}}

\* response.data of GET /api/images?page&limit&q&tag (lines 70-79), the
\* server holding the images `remote`.
ListResponse(params, remote) ==
  LET found == remote \cap params.query \cap params.tag
  IN [files |-> found,
      pagination |-> [page |-> params.page, total |-> Cardinality(found)]]

\* Every call in `fetching` has returned.
AllFetchesSettled == \A k \in DOMAIN fetching : fetching[k].state = "returned"

\* fetchImages(page) up to `await axios.get(...)` (lines 63-78): the request
\* is built from the filters of the store `st`.  The calls that overlap are
\* kept in the order in which they were made.
FetchIssued(st, page) ==
  /\ AllFetchesSettled \/ Len(fetching) < MaxFetches
  /\ img' = [st EXCEPT !.isLoading = TRUE, !.error = "null"]
  /\ LET call == [state |-> "pending",
                  params |-> [page |-> page, query |-> st.filters.query,
                              tag |-> st.filters.tag]]
     IN fetching' = IF AllFetchesSettled THEN <<call>> ELSE Append(fetching, call)
  /\ UNCHANGED <<remoteImages, di, deleting>>
  /\ UNCHANGED <<uploadVars, poolVars, favVars, serverVars>>

\* fetchImages() with the default page.
fetchImages == FetchIssued(img, 1)

\* searchImages(query) (lines 113-120): the filter and the page are set,
\* then fetchImages(1) is called in the same turn.
searchImages(query) ==
  FetchIssued([img EXCEPT !.filters.query = query, !.pagination.page = 1], 1)

\* filterByTag(tag) (lines 123-130).
filterByTag(tag) ==
  FetchIssued([img EXCEPT !.filters.tag = tag, !.pagination.page = 1], 1)

\* The response of call k arrives: the list is replaced by the response's
\* files, sorted newest first, and the pagination is merged with the
\* response's (lines 79-98).
FetchSucceeds(k) ==
  /\ fetching[k].state = "pending"
  /\ LET data == ListResponse(fetching[k].params, remoteImages)
         sortedFiles == Descending(data.files)
     IN /\ img' = [img EXCEPT !.images = sortedFiles,
                              !.pagination = data.pagination,
                              !.isLoading = FALSE, !.error = "null"]
        /\ fetching' = [fetching EXCEPT ![k] =
                          [state |-> "returned", params |-> @.params, data |-> data,
                           value |-> [success |-> TRUE, images |-> sortedFiles]]]
  /\ UNCHANGED <<remoteImages, di, deleting>>
  /\ UNCHANGED <<uploadVars, poolVars, favVars, serverVars>>

\* The request of call k is rejected (lines 99-106).
FetchFails(k, kind) ==
  /\ fetching[k].state = "pending"
  /\ LET msg == ImageErrorMessage("fetchImages", kind) IN
       /\ img' = [img EXCEPT !.isLoading = FALSE, !.error = msg]
       /\ fetching' = [fetching EXCEPT ![k] =
                         [state |-> "returned", params |-> @.params, data |-> NullV,
                          value |-> [success |-> FALSE, error |-> msg]]]
  /\ UNCHANGED <<remoteImages, di, deleting>>
  /\ UNCHANGED <<uploadVars, poolVars, favVars, serverVars>>

ImageFailures == {"payload", "bare"}

NextSelection ==
  \/ \E id \in ImageIds : toggleImageSelection(id)
  \/ toggleSelectAll
  \/ clearSelection
  \/ \E id \in ImageIds : deleteImage(id)
  \/ \E id \in ImageIds : DeleteImageSucceeds(id)
  \/ \E id \in ImageIds, kind \in ImageFailures : DeleteImageFails(id, kind)
  \/ fetchImages
  \/ \E k \in DOMAIN fetching : FetchSucceeds(k)
  \/ \E k \in DOMAIN fetching, kind \in ImageFailures : FetchFails(k, kind)

\* The list requests of the image store, which may overlap.
NextSearch ==
  \/ fetchImages
  \/ \E query \in Queries : searchImages(query)
  \/ \E tag \in Tags : filterByTag(tag)
  \/ \E k \in DOMAIN fetching : FetchSucceeds(k)
  \/ \E k \in DOMAIN fetching, kind \in ImageFailures : FetchFails(k, kind)

\* -------------------------------------------------------- useFavoriteStore
FavIds == 1..MaxFavIds

\* A free slot of `calls`.
Free == [op |-> "free"]

\* The favorite store after a completed initFavorites that found the ids S
\* on the server (lines 347-357).
FavoritesLoaded(S) ==
  [favorites |-> S, favoriteImages |-> Descending(S), isLoading |-> FALSE, error |-> "null"]

\* Before any mutation.
NoEvent == [type |-> "none", call |-> Free, ret |-> NoRet]

\* The optimistic step of addFavorite and addFavorites (lines 382-384, 451-453).
AddOptimistic(store, ids) ==
  [store EXCEPT !.favorites = @ \cup ids]

\* The optimistic step of removeFavorite and removeFavorites
\* (lines 409-416, 479-486).
RemoveOptimistic(store, ids) ==
  [store EXCEPT !.favorites = @ \ ids,
                !.favoriteImages = SelectSeq(@, LAMBDA id : id \notin ids)]

\* error.response?.data?.error || <the action's own message>
\* (lines 395, 428, 466, 502).
FavErrorMessage(op, kind) ==
  IF kind = "payload" THEN "response.data.error"
  ELSE CASE op = "add" -> "add favorite failed"
         [] op = "remove" -> "remove favorite failed"
         [] op = "addBatch" -> "batch add favorites failed"
         [] OTHER -> "batch remove favorites failed"

\* As RollbackAdd, but taking back only the first id of the call.
RollbackAdd_Partial(store, call, msg) ==
  [store EXCEPT !.favorites = @ \ {x \in call.ids : \A y \in call.ids : x <= y},
                !.error = msg]

\* The catch of addFavorite and addFavorites (lines 393-396, 464-467).
RollbackAdd(store, call, msg) ==
  [store EXCEPT !.favorites = call.oldFavorites, !.error = msg]

\* As RollbackRemove, but restoring the set only.
RollbackRemove_SetOnly(store, call, msg) ==
  [store EXCEPT !.favorites = call.oldFavorites, !.error = msg]

\* The catch of removeFavorite and removeFavorites (lines 423-429, 497-503).
RollbackRemove(store, call, msg) ==
  [store EXCEPT !.favorites = call.oldFavorites,
                !.favoriteImages = call.oldFavoriteImages,
                !.error = msg]

IsAdd(op) == op \in {"add", "addBatch"}

InFlight == {s \in DOMAIN calls : calls[s] # Free}

\* A mutation up to its `await axios...`: the snapshot, the optimistic
\* update and the request (lines 379-387, 405-419, 448-456, 475-489).
\* `pre` and `alone` record the store at the call and whether any other
\* mutation has been in flight together with this one.
StartMutation(op, ids) ==
  /\ InFlight # DOMAIN calls
  /\ ncalls < MaxCalls
  /\ ncalls' = ncalls + 1
  /\ LET s == CHOOSE x \in DOMAIN calls \ InFlight :
                 \A y \in DOMAIN calls \ InFlight : x <= y
         call == [op |-> op, ids |-> ids,
                  oldFavorites |-> fav.favorites,
                  oldFavoriteImages |-> IF IsAdd(op) THEN <<>> ELSE fav.favoriteImages,
                  pre |-> [favorites |-> fav.favorites,
                           favoriteImages |-> fav.favoriteImages],
                  alone |-> InFlight = {}]
     IN /\ fav' = IF IsAdd(op) THEN AddOptimistic(fav, ids) ELSE RemoveOptimistic(fav, ids)
        /\ calls' = [x \in DOMAIN calls |->
                       IF x = s THEN call
                       ELSE IF calls[x] = Free THEN Free
                       ELSE [calls[x] EXCEPT !.alone = FALSE]]
        /\ lastEvent' = [type |-> "call", call |-> Free, ret |-> NoRet]
  /\ UNCHANGED remoteFav
  /\ UNCHANGED <<uploadVars, poolVars, imageVars, serverVars>>

addFavorite(imageId) == StartMutation("add", {imageId})

removeFavorite(imageId) == StartMutation("remove", {imageId})

\* As toggleFavorite, but deciding by what the server holds.
toggleFavorite_RemoteRead(imageId) ==
  IF imageId \in remoteFav THEN removeFavorite(imageId) ELSE addFavorite(imageId)

\* toggleFavorite reads the membership and calls one of the two in the same
\* turn (lines 436-444).
toggleFavorite(imageId) ==
  IF imageId \in fav.favorites THEN removeFavorite(imageId) ELSE addFavorite(imageId)

addFavorites(imageIds) == StartMutation("addBatch", imageIds)

removeFavorites(imageIds) == StartMutation("removeBatch", imageIds)

\* As RemoteSucceeds, but reloading the store from the server on success.
RemoteSucceeds_Refetch(s) ==
  /\ calls[s] # Free
  /\ remoteFav' = IF IsAdd(calls[s].op) THEN remoteFav \cup calls[s].ids
                  ELSE remoteFav \ calls[s].ids
  /\ calls' = [calls EXCEPT ![s] = Free]
  /\ lastEvent' = [type |-> "ok", call |-> Free,
                   ret |-> Returned([success |-> TRUE])]
  /\ fav' = [fav EXCEPT !.favorites = remoteFav', !.favoriteImages = Descending(remoteFav')]
  /\ UNCHANGED ncalls
  /\ UNCHANGED <<uploadVars, poolVars, imageVars, serverVars>>

\* The remote call of the mutation in slot s is fulfilled: the server has
\* applied it and the action returns { success: true } (lines 390, 420,
\* 461, 494).
RemoteSucceeds(s) ==
  /\ calls[s] # Free
  /\ remoteFav' = IF IsAdd(calls[s].op) THEN remoteFav \cup calls[s].ids
                  ELSE remoteFav \ calls[s].ids
  /\ calls' = [calls EXCEPT ![s] = Free]
  /\ lastEvent' = [type |-> "ok", call |-> Free,
                   ret |-> Returned([success |-> TRUE])]
  /\ UNCHANGED <<fav, ncalls>>
  /\ UNCHANGED <<uploadVars, poolVars, imageVars, serverVars>>

\* The remote call is rejected, the server having changed nothing: the
\* catch restores the snapshot, sets the error and returns
\* { success: false, error }.
RemoteFails(s, kind) ==
  /\ calls[s] # Free
  /\ LET msg == FavErrorMessage(calls[s].op, kind) IN
       /\ fav' = IF IsAdd(calls[s].op) THEN RollbackAdd(fav, calls[s], msg)
                 ELSE RollbackRemove(fav, calls[s], msg)
       /\ lastEvent' = [type |-> "fail", call |-> calls[s],
                        ret |-> Returned([success |-> FALSE, error |-> msg])]
  /\ calls' = [calls EXCEPT ![s] = Free]
  /\ UNCHANGED <<remoteFav, ncalls>>
  /\ UNCHANGED <<uploadVars, poolVars, imageVars, serverVars>>

\* The ways a remote call is rejected: with or without an error payload.
RemoteFailures == {"payload", "bare"}

\* The entry of `calls` for an initFavorites awaiting GET /api/favorites; it
\* takes no snapshot and makes no optimistic update.
InitCall ==
  [op |-> "init", ids |-> {}, oldFavorites |-> {}, oldFavoriteImages |-> <<>>,
   pre |-> [favorites |-> {}, favoriteImages |-> <<>>], alone |-> FALSE]

\* initFavorites (and fetchFavorites, which calls it) up to its
\* `await axios.get` (lines 343-347).
initFavorites ==
  /\ InFlight # DOMAIN calls
  /\ LET s == CHOOSE x \in DOMAIN calls \ InFlight :
                 \A y \in DOMAIN calls \ InFlight : x <= y
     IN calls' = [calls EXCEPT ![s] = InitCall]
  /\ fav' = [fav EXCEPT !.isLoading = TRUE, !.error = "null"]
  /\ lastEvent' = [type |-> "call", call |-> Free, ret |-> NoRet]
  /\ UNCHANGED <<remoteFav, ncalls>>
  /\ UNCHANGED <<uploadVars, poolVars, imageVars, serverVars>>

\* GET /api/favorites is fulfilled with the server's list: favorites and
\* favoriteImages are both set from the response (lines 348-359).
InitFavoritesSucceeds(s) ==
  /\ calls[s].op = "init"
  /\ fav' = FavoritesLoaded(remoteFav)
  /\ calls' = [calls EXCEPT ![s] = Free]
  /\ lastEvent' = [type |-> "ok", call |-> Free,
                   ret |-> Returned([success |-> TRUE, favorites |-> remoteFav])]
  /\ UNCHANGED <<remoteFav, ncalls>>
  /\ UNCHANGED <<uploadVars, poolVars, imageVars, serverVars>>

\* GET /api/favorites is rejected: the catch sets the error and leaves
\* favorites and favoriteImages as they are (lines 360-368).
InitFavoritesFails(s, kind) ==
  /\ calls[s].op = "init"
  /\ LET msg == IF kind = "payload" THEN "response.data.error"
                ELSE "load favorites failed" IN
       /\ fav' = [fav EXCEPT !.error = msg, !.isLoading = FALSE]
       /\ lastEvent' = [type |-> "fail", call |-> calls[s],
                        ret |-> Returned([success |-> FALSE, error |-> msg])]
  /\ calls' = [calls EXCEPT ![s] = Free]
  /\ UNCHANGED <<remoteFav, ncalls>>
  /\ UNCHANGED <<uploadVars, poolVars, imageVars, serverVars>>

\* A mutation's request is answered (fulfilled or rejected).
MutationSettles(s) ==
  /\ calls[s].op # "init"
  /\ \/ RemoteSucceeds(s)
     \/ \E kind \in RemoteFailures : RemoteFails(s, kind)

\* The favorite store with initFavorites among its actions.
NextFavoriteStore ==
  \/ initFavorites
  \/ \E s \in DOMAIN calls : InitFavoritesSucceeds(s)
  \/ \E s \in DOMAIN calls, kind \in RemoteFailures : InitFavoritesFails(s, kind)
  \/ \E id \in FavIds : addFavorite(id)
  \/ \E id \in FavIds : removeFavorite(id)
  \/ \E ids \in SUBSET FavIds : addFavorites(ids)
  \/ \E ids \in SUBSET FavIds : removeFavorites(ids)
  \/ \E s \in DOMAIN calls : MutationSettles(s)

NextFavoriteSingles ==
  \/ \E id \in FavIds : addFavorite(id)
  \/ \E id \in FavIds : removeFavorite(id)
  \/ \E id \in FavIds : toggleFavorite(id)
  \/ \E s \in DOMAIN calls : RemoteSucceeds(s)
  \/ \E s \in DOMAIN calls, kind \in RemoteFailures : RemoteFails(s, kind)

NextToggles ==
  \/ \E id \in FavIds : toggleFavorite(id)
  \/ \E s \in DOMAIN calls : RemoteSucceeds(s)
  \/ \E s \in DOMAIN calls, kind \in RemoteFailures : RemoteFails(s, kind)

NextFavorites ==
  \/ NextFavoriteSingles
  \/ \E ids \in SUBSET FavIds : addFavorites(ids)
  \/ \E ids \in SUBSET FavIds : removeFavorites(ids)

FavoritesIdle ==
  /\ fav = FavoritesLoaded({})
  /\ remoteFav = {}
  /\ calls = <<>>
  /\ lastEvent = NoEvent
  /\ ncalls = 0

\* ------------------------------------------------- server: upload(c)
\* The handler of request r, which carries one file (uploadSingleFile
\* appends one file to its form), keyed by r.  Its positions:
\*   "sending"  at `await sendToTelegram(...)`          (line 57)
\*   "stored"   after `await env.img_url.put(fileKey)`, at the get (lines 83, 97)
\*   "read"     userFiles holds the list read, at the put of the list (line 99)
\*   "done"     the response is sent                     (line 105)
\* No upload request is being handled.
ServerIdle ==
  /\ storedKeys = {} /\ userFilesKV = <<>> /\ handlers = <<>>

\* sendToTelegram fails, or returns no file id: the file is skipped
\* (lines 59-67) and the response holds no entry for it.
SendFails(r) ==
  /\ handlers[r].pc = "sending"
  /\ handlers' = [handlers EXCEPT ![r].pc = "done"]
  /\ UNCHANGED <<storedKeys, userFilesKV>>
  /\ UNCHANGED <<uploadVars, poolVars, imageVars, favVars>>

\* sendToTelegram succeeds and the file's key is put with its metadata
\* (lines 57-83).
StoresFile(r) ==
  /\ handlers[r].pc = "sending"
  /\ storedKeys' = storedKeys \cup {r}
  /\ handlers' = [handlers EXCEPT ![r].pc = "stored"]
  /\ UNCHANGED userFilesKV
  /\ UNCHANGED <<uploadVars, poolVars, imageVars, favVars>>

\* let userFiles = await env.img_url.get(userFilesKey, ...) || []   (line 97)
ReadsUserFiles(r) ==
  /\ handlers[r].pc = "stored"
  /\ handlers' = [handlers EXCEPT ![r] = [pc |-> "read", userFiles |-> userFilesKV]]
  /\ UNCHANGED <<storedKeys, userFilesKV>>
  /\ UNCHANGED <<uploadVars, poolVars, imageVars, favVars>>

\* userFiles.push(newFile); await env.img_url.put(userFilesKey, ...)
\* (lines 98-99), and the response (lines 103-105).
WritesUserFiles(r) ==
  /\ handlers[r].pc = "read"
  /\ userFilesKV' = Append(handlers[r].userFiles, r)
  /\ handlers' = [handlers EXCEPT ![r].pc = "done"]
  /\ UNCHANGED storedKeys
  /\ UNCHANGED <<uploadVars, poolVars, imageVars, favVars>>

NextServer ==
  \/ \E r \in DOMAIN handlers : SendFails(r)
  \/ \E r \in DOMAIN handlers : StoresFile(r)
  \/ \E r \in DOMAIN handlers : ReadsUserFiles(r)
  \/ \E r \in DOMAIN handlers : WritesUserFiles(r)

\* Up to MaxRequests upload requests of one user have reached the server,
\* as the workers of runWithConcurrency send them side by side; the user's
\* list is empty or holds an earlier file (key 0).
InitServer ==
  /\ UploadIdle /\ PoolIdle /\ ImagesIdle /\ FavoritesIdle
  /\ \E n \in 0..MaxRequests, earlier \in {<<>>, <<0>>} :
       /\ handlers = [r \in 1..n |-> [pc |-> "sending", userFiles |-> <<>>]]
       /\ userFilesKV = earlier
       /\ storedKeys = Range(earlier)

SpecServer == InitServer /\ [][NextServer]_vars

\* ---------------------------------------------------------- specifications
\* The two worker pools, each called once with inputs drawn from the bounds:
\* uploadFiles (and the pool runWithConcurrency inside it), or
\* runWithConcurrencyLimit.
InitPoolCall ==
  \E ids \in IdArrays(MaxTasks), limit \in 0..MaxConcurrency :
    LET n == Cardinality(DOMAIN ids)
        W == PoolWorkers(limit, n)
    IN /\ ptasks = ids
       /\ plimit = limit
       /\ pindex = W
       /\ presults = [i \in DOMAIN ids |-> Hole]
       /\ pworkers = [w \in 1..W |-> [pc |-> "await_task", currentIndex |-> w - 1]]
       /\ pstate = [i \in DOMAIN ids |->
                      [phase |-> IF i < W THEN "running" ELSE "unclaimed",
                       outcome |-> "none", value |-> UndefinedV]]
       /\ pret = NoRet

Init ==
  \/ InitUpload /\ PoolIdle /\ ImagesIdle /\ FavoritesIdle /\ ServerIdle
  \/ UploadIdle /\ InitPoolCall /\ ImagesIdle /\ FavoritesIdle /\ ServerIdle

Next ==
  \/ NextUpload
  \/ NextPool

Spec == Init /\ [][Next]_vars

\* The image store, loaded with any of the server's lists and any selection,
\* under deleteImages calls.
InitImages ==
  /\ UploadIdle /\ PoolIdle /\ FavoritesIdle /\ ServerIdle
  /\ \E ids \in SUBSET ImageIds, selected \in SUBSET ImageIds, mode \in BOOLEAN :
       /\ selected \subseteq ids
       /\ ImageStoreLoaded(ids, selected, mode)

SpecImages == InitImages /\ [][NextImages]_vars

\* The image store under its selection actions, deleteImage and
\* fetchImages (deleteImages is the subject of SpecImages).
SpecSelection == InitImages /\ [][NextSelection]_vars

\* The image store showing the unfiltered list of any set of images the
\* server holds, under list requests.
InitSearch ==
  /\ UploadIdle /\ PoolIdle /\ FavoritesIdle /\ ServerIdle
  /\ \E ids \in SUBSET ImageIds : ImageStoreLoaded(ids, {}, FALSE)

SpecSearch == InitSearch /\ [][NextSearch]_vars

\* The favorite store in agreement with the server on any set of favorites,
\* under favorite mutations that may overlap.
InitFavorites ==
  /\ UploadIdle /\ PoolIdle /\ ImagesIdle /\ ServerIdle
  /\ \E S \in SUBSET FavIds :
       /\ fav = FavoritesLoaded(S)
       /\ remoteFav = S
  /\ calls = [s \in 1..MaxInFlight |-> Free]
  /\ lastEvent = NoEvent
  /\ ncalls = 0

SpecFavorites == InitFavorites /\ [][NextFavorites]_vars

\* The same under addFavorite, removeFavorite and toggleFavorite alone.
SpecFavoriteSingles == InitFavorites /\ [][NextFavoriteSingles]_vars

\* The favorite store as constructed (lines 337-340), the server holding any
\* set of favorites, under initFavorites and the mutations.
InitFavoriteStore ==
  /\ UploadIdle /\ PoolIdle /\ ImagesIdle /\ ServerIdle
  /\ fav = FavoritesLoaded({})
  /\ remoteFav \in SUBSET FavIds
  /\ calls = [s \in 1..MaxInFlight |-> Free]
  /\ lastEvent = NoEvent
  /\ ncalls = 0

SpecFavoriteStore == InitFavoriteStore /\ [][NextFavoriteStore]_vars

\* uploadFiles under the event loop's scheduling: a continuation that is
\* ready runs, a timer that was set fires, and every request is eventually
\* answered or rejected.
FairUpload ==
  /\ WF_vars(\E i \in DOMAIN files : UploadResolves(i)
                \/ \E kind \in AttemptFailures : UploadFails(i, kind))
  /\ WF_vars(\E i \in DOMAIN files : BackoffElapses(i))
  /\ WF_vars(\E w \in DOMAIN workers : WorkerResumes(w))
  /\ WF_vars(UploadFilesReturns)

\* Batches of files of one kind: what a file holds has no part in when its
\* task is claimed, retried or stored.
PlainFileLists ==
  UNION {[0..(n - 1) -> {[size |-> 100, type |-> ImagePng]}] : n \in 0..MaxFiles}

InitUploadAlone ==
  /\ \E kinds \in PlainFileLists, K \in 0..MaxConcurrency, R \in 0..MaxRetries :
       UploadFilesCalled(kinds, K, R, FALSE)
  /\ PoolIdle /\ ImagesIdle /\ FavoritesIdle /\ ServerIdle

SpecUploadFair == InitUploadAlone /\ [][NextUpload]_vars /\ FairUpload

\* uploadFiles called with up to MaxAttempts attempts for each file.
InitBackoff ==
  /\ \E kinds \in PlainFileLists, K \in 1..MaxConcurrency, R \in 0..MaxAttempts :
       UploadFilesCalled(kinds, K, R, FALSE)
  /\ PoolIdle /\ ImagesIdle /\ FavoritesIdle /\ ServerIdle

SpecBackoff == InitBackoff /\ [][NextUpload]_vars

\* The favorite store under toggleFavorite alone.
SpecToggles == InitFavorites /\ [][NextToggles]_vars

\* uploadFiles called with a progress callback, a concurrency of one or
\* more and one attempt or more per file.
InitProgress ==
  /\ \E kinds \in ProgressFileLists, K \in 1..MaxConcurrency, R \in 1..MaxRetries :
       UploadFilesCalled(kinds, K, R, TRUE)
  /\ PoolIdle /\ ImagesIdle /\ FavoritesIdle /\ ServerIdle

SpecProgress == InitProgress /\ [][NextProgress]_vars

\* uploadFiles called with a progress callback and files of 100 and of 200
\* bytes: the shares of the batch that are uploaded are not all whole
\* percents.
UnevenFileLists ==
  UNION {[0..(n - 1) -> {[size |-> 100, type |-> ImagePng],
                         [size |-> 200, type |-> ImagePng]}] : n \in 0..MaxFiles}

InitUneven ==
  /\ \E kinds \in UnevenFileLists, K \in 1..MaxConcurrency, R \in 1..MaxRetries :
       UploadFilesCalled(kinds, K, R, TRUE)
  /\ PoolIdle /\ ImagesIdle /\ FavoritesIdle /\ ServerIdle

SpecUneven == InitUneven /\ [][NextProgress]_vars

\* The throttle under the event loop's scheduling: time passes, a timer
\* that is due fires, and the continuation of `await Promise.all(workers)`
\* runs.  Nothing is assumed of the requests.
FairThrottle ==
  /\ WF_vars(WindowElapses)
  /\ WF_vars(TimerFires)
  /\ WF_vars(UploadFilesReturns)

\* uploadFiles called with a progress callback and files of one kind.
InitThrottle ==
  /\ \E kinds \in PlainFileLists, K \in 1..MaxConcurrency, R \in 1..MaxRetries :
       UploadFilesCalled(kinds, K, R, TRUE)
  /\ PoolIdle /\ ImagesIdle /\ FavoritesIdle /\ ServerIdle

SpecThrottleFair == InitThrottle /\ [][NextProgress]_vars /\ FairThrottle

\* ------------------------------------------------------------------ claims
\* The items that have been started and have not been stored yet.
UploadInFlight == {i \in DOMAIN tasks : tasks[i].phase \in {"uploading", "backoff", "returned"}}
PoolInFlight == {i \in DOMAIN pstate : pstate[i].phase \in {"running", "settled"}}

\* C1: whenever uploadFiles has returned from a call with concurrency >= 1
\* and retries >= 1, it returned success:true with data holding, for each of
\* the N items, a Result with a boolean success flag, and every item's task
\* was run to the end, whatever attempts failed.
UploadNeverAborts ==
  (ret.state = "returned" /\ concurrency >= 1 /\ retries >= 1) =>
     /\ ret.value.success = TRUE
     /\ DOMAIN ret.value.data = 0..(N - 1)
     /\ \A i \in 0..(N - 1) :
          /\ ret.value.data[i] \notin {Hole, UndefinedV}
          /\ ret.value.data[i].success \in BOOLEAN
          /\ tasks[i].phase = "stored"

\* A batch of two has returned; one item succeeded and the other failed
\* all its attempts on the network.
UploadNeverAbortsWitness ==
  /\ ret.state = "returned" /\ concurrency >= 1 /\ retries >= 1 /\ N = 2
  /\ \E i, j \in 0..(N - 1) :
       /\ ret.value.data[i].success
       /\ ~ret.value.data[j].success
       /\ tasks[j].netCalls = retries

\* C2: when either pool has returned from a call with a limit of at least
\* one, its results array has length N and slot i holds what task i returned
\* (or the error it rejected with), in whatever order the tasks completed.
PoolResultsPositional ==
  /\ (ret.state = "returned" /\ concurrency >= 1) =>
        /\ ArrayLength(results) = N
        /\ \A i \in 0..(N - 1) :
             /\ results[i] = tasks[i].value
             /\ results[i] # UndefinedV => results[i].filename = files[i].name
  /\ (pret.state = "returned" /\ plimit >= 1) =>
        /\ ArrayLength(pret.value) = PN
        /\ \A i \in 0..(PN - 1) :
             pret.value[i] = IF pstate[i].outcome = "fulfilled"
                             THEN DeleteResponse(ptasks[i])
                             ELSE ErrorSlot(pstate[i].value)

\* Two tasks ran side by side and the second completed first.
PoolResultsPositionalWitness ==
  /\ ret.state = "returned" /\ concurrency = 2 /\ N = 2
  /\ tasks[1].order < tasks[0].order
  /\ tasks[0].netCalls >= 1 /\ tasks[1].netCalls >= 1

\* C3: in every state the number of tasks started and not yet settled and
\* stored (a task in its backoff delay included) is at most min(K, N), in
\* both pools.
InFlightBounded ==
  /\ Cardinality(UploadInFlight) <= Min(concurrency, N)
  /\ Cardinality(PoolInFlight) <= Min(plimit, PN)

\* One worker, two tasks: the first is in its backoff delay and the second
\* still waits.
InFlightBoundedWitness ==
  /\ concurrency = 1 /\ N = 2
  /\ tasks[0].phase = "backoff" /\ tasks[1].phase = "unclaimed"
  /\ Cardinality(UploadInFlight) = Min(concurrency, N)

\* C4: the summary uploadFiles returns (concurrency >= 1, retries >= 1) has
\* success + failed = total, total = the length of the returned results =
\* N, and success = the number of Results whose success flag is true.
SummaryConsistent ==
  (ret.state = "returned" /\ concurrency >= 1 /\ retries >= 1) =>
     /\ ret.value.success
     /\ LET s == ret.value.summary
            d == ret.value.data
        IN /\ s.success + s.failed = s.total
           /\ s.total = ArrayLength(d)
           /\ s.total = N
           /\ s.success = Cardinality({i \in DOMAIN d :
                                         d[i] \notin {Hole, UndefinedV} /\ d[i].success})

\* A returned batch with one success and one failure.
SummaryConsistentWitness ==
  /\ ret.state = "returned" /\ concurrency >= 1 /\ retries >= 1
  /\ ret.value.success
  /\ ret.value.summary.success = 1 /\ ret.value.summary.failed = 1

\* C5: for an item within the size limit and retries = R >= 1, once its
\* task has returned: every attempt but the last one made had failed; if the
\* last attempt made succeeded (in particular the R-th after R-1 failures)
\* the Result is a success; otherwise all R attempts failed and the Result
\* is a failure whose error is the message of the R-th failure.
RetryOutcome ==
  \A i \in DOMAIN tasks :
    (retries >= 1 /\ files[i].size <= maxSize /\ tasks[i].phase \in {"returned", "stored"}) =>
      LET t == tasks[i]
          n == Len(t.log)
      IN /\ n >= 1 /\ n <= retries
         /\ \A k \in 1..(n - 1) : t.log[k] = "fail"
         /\ t.log[n] = "ok" => t.value.success = TRUE
         /\ t.log[n] = "fail" =>
               /\ n = retries
               /\ t.value.success = FALSE
               /\ t.value.error \in
                    {ErrorMessage(AttemptError(k, retries - 1)) : k \in AttemptFailures}

\* With two attempts allowed, one item failed then succeeded and the other
\* failed twice, the second time with a server message.
RetryOutcomeWitness ==
  /\ retries = 2 /\ N = 2
  /\ tasks[0].phase = "stored" /\ tasks[0].log = <<"fail", "ok">>
  /\ tasks[0].value.success
  /\ tasks[1].phase = "stored" /\ tasks[1].log = <<"fail", "fail">>
  /\ tasks[1].value.error = ErrorMessage(AttemptError("payload", 1))

\* C6 as stated: an item that fails validateFile (size limit or allowed
\* type) never has a network attempt or a backoff delay, and its slot holds
\* a failure Result.
InvalidItemNoNetwork ==
  \A i \in DOMAIN tasks :
    ~validateFile(files[i]).isValid =>
      /\ tasks[i].netCalls = 0
      /\ tasks[i].delays = <<>>
      /\ results[i] \notin {Hole, UndefinedV} => ~results[i].success

\* C6 amended: an item over the size limit never has a network attempt or a
\* backoff delay, its slot holds the size failure Result for that item, and
\* once the batch has returned (concurrency >= 1, retries >= 1) every other
\* item's slot holds that item's own Result, successful exactly when its
\* last attempt succeeded.
OversizeItemNoNetwork ==
  \A i \in DOMAIN tasks :
    files[i].size > maxSize =>
      /\ tasks[i].netCalls = 0
      /\ tasks[i].delays = <<>>
      /\ tasks[i].log = <<>>
      /\ results[i] # Hole => results[i] = FailureResult(files[i], SizeLimitMessage)
      /\ (ret.state = "returned" /\ concurrency >= 1 /\ retries >= 1) =>
            /\ results[i] # Hole
            /\ \A j \in DOMAIN tasks \ {i} :
                 files[j].size <= maxSize =>
                   /\ results[j].filename = files[j].name
                   /\ results[j].success = (tasks[j].log[Len(tasks[j].log)] = "ok")

\* Two items with concurrency 2: the second is over the limit and failed
\* without a request, the first was uploaded.
OversizeItemNoNetworkWitness ==
  /\ ret.state = "returned" /\ concurrency = 2 /\ retries >= 1 /\ N = 2
  /\ files[1].size > maxSize
  /\ results[1] = FailureResult(files[1], SizeLimitMessage)
  /\ results[0] \notin {Hole, UndefinedV}
  /\ results[0].success

\* C9 as stated: when deleteImages has returned and the remote delete of an
\* image of the batch had failed, it returned success:false and the images
\* list still holds every image of the batch it held at the call.
DeleteFailureRolledBack ==
  (di.pc = "returned" /\ \E i \in DOMAIN pstate :
                            /\ pstate[i].outcome = "rejected"
                            /\ ptasks[i] \in Range(di.before)) =>
     /\ di.ret.value.success = FALSE
     /\ Range(di.before) \cap Range(di.imageIds) \subseteq Range(img.images)

\* C7: while an addFavorite(c) that no other mutation has overlapped awaits
\* its remote call, the set is S + {c}, S being the set at the call (for
\* removeFavorite, S - {c} and the list without c); when the remote call of
\* such a mutation has failed, the set and the list are exactly those at the
\* call, the store's error is a message and the action has returned
\* {success: false, error} with that message.
LoneMutationOptimisticThenRestored ==
  /\ \A s \in InFlight :
       LET c == calls[s] IN
         /\ (c.alone /\ c.op = "add") =>
               /\ fav.favorites = c.pre.favorites \cup c.ids
               /\ fav.favoriteImages = c.pre.favoriteImages
         /\ (c.alone /\ c.op = "remove") =>
               /\ fav.favorites = c.pre.favorites \ c.ids
               /\ fav.favoriteImages =
                    SelectSeq(c.pre.favoriteImages, LAMBDA id : id \notin c.ids)
  /\ (lastEvent.type = "fail" /\ lastEvent.call.alone
        /\ lastEvent.call.op \in {"add", "remove"}) =>
       /\ fav.favorites = lastEvent.call.pre.favorites
       /\ fav.favoriteImages = lastEvent.call.pre.favoriteImages
       /\ fav.error # "null"
       /\ lastEvent.ret = Returned([success |-> FALSE, error |-> fav.error])

\* A removeFavorite of a listed favorite, overlapped by no other mutation,
\* has failed.
LoneMutationWitness ==
  /\ lastEvent.type = "fail" /\ lastEvent.call.alone
  /\ lastEvent.call.op = "remove"
  /\ lastEvent.call.ids \subseteq lastEvent.call.pre.favorites
  /\ lastEvent.call.ids \subseteq Range(lastEvent.call.pre.favoriteImages)
  /\ lastEvent.call.pre.favorites # lastEvent.call.ids

\* C8: when the remote call of addFavorites or removeFavorites has failed,
\* the favorites set is exactly the set at the call, whatever the batch and
\* the starting set and whatever other mutations are in flight; the
\* favoriteImages list is the list at the call for removeFavorites, and for
\* an addFavorites (which never changes the list) that no other mutation
\* has overlapped.
BatchFailureRestoresAll ==
  (lastEvent.type = "fail" /\ lastEvent.call.op \in {"addBatch", "removeBatch"}) =>
     /\ fav.favorites = lastEvent.call.pre.favorites
     /\ (lastEvent.call.op = "removeBatch" \/ lastEvent.call.alone) =>
          fav.favoriteImages = lastEvent.call.pre.favoriteImages

\* An addFavorites of two ids, one of them new, on a set that was not
\* empty has failed.
BatchFailureWitness ==
  /\ lastEvent.type = "fail" /\ lastEvent.call.op = "addBatch"
  /\ Cardinality(lastEvent.call.ids) = 2
  /\ lastEvent.call.pre.favorites # {}
  /\ lastEvent.call.ids \ lastEvent.call.pre.favorites # {}

\* C10 as stated: whenever no favorite mutation is in flight, the store's
\* favorites set equals the server's.
StableAgreesWithRemote ==
  InFlight = {} => fav.favorites = remoteFav

\* C11 as stated: an event with percent 100 is the last event delivered (no
\* event follows it) and is delivered only when every task has settled.
OnlyLastEventIsHundred ==
  /\ ~delivered.earlyHundred
  /\ delivered.hundreds > 0 =>
       (delivered.hundreds = 1 /\ delivered.last.percent = 100)

\* C11 amended: an event with percent 100 is delivered only when every
\* task has settled (the concurrency being one or more); every event delivered
\* after it carries 100 too; there are at most three of them (the last
\* completion event, its repetition by flush, the terminal event), and when
\* uploadFiles has returned the last event delivered carries 100.
HundredOnlyAfterAllSettled ==
  /\ ~delivered.earlyHundred
  /\ ~delivered.lowAfterHundred
  /\ delivered.hundreds <= 3
  /\ (onProgress /\ ret # NoRet) => delivered.last.percent = 100

\* A batch of two files has returned after three events with percent 100.
HundredOnlyAfterAllSettledWitness ==
  /\ onProgress /\ ret # NoRet /\ N = 2
  /\ delivered.hundreds = 3

\* C12: each event delivered carries a completed count that is at least
\* that of the event delivered before it, whether the throttle delivered it
\* at once, by its timer or by flush.
CompletedNeverDecreases ==
  delivered.completedSorted

\* A batch of two files has returned, its requests having notified
\* progress, and the last completion event was held back by the throttle
\* and delivered by flush.
CompletedNeverDecreasesWitness ==
  /\ onProgress /\ ret # NoRet /\ N = 2 /\ completed = 2
  /\ notifications > 0
  /\ delivered.hundreds = 2

\* C13 as stated: each event delivered carries a percent that is at least
\* that of the event delivered before it.
PercentNeverDecreases ==
  delivered.percentSorted

\* C14: when uploadFiles has returned and a callback was supplied, the last
\* event delivered is the terminal event {completed: N, total: N, percent:
\* 100}, and the throttle holds neither a timer nor an event that could be
\* delivered after it.
TerminalEventIsLast ==
  (onProgress /\ ret # NoRet) =>
     /\ delivered.last # NullV
     /\ delivered.last.completed = N /\ delivered.last.total = N
     /\ delivered.last.percent = 100
     /\ delivered.last.currentIndex = N - 1
     /\ throttle.timer = "none"
     /\ throttle.lastArgs = NullV

\* A batch whose files all failed has returned after progress
\* notifications and a retry.
TerminalEventIsLastWitness ==
  /\ onProgress /\ ret # NoRet /\ N > 0 /\ completed = N
  /\ notifications > 0
  /\ \A i \in DOMAIN results : results[i] # UndefinedV /\ ~results[i].success
  /\ \E i \in DOMAIN tasks : tasks[i].attempt > 0

\* C15 as stated: in a batch of no bytes every event delivered carries
\* percent 100.
ZeroByteBatchAlwaysHundred ==
  (onProgress /\ totalSize = 0 /\ delivered.last # NullV) =>
     delivered.last.percent = 100

\* What a toggleFavorite(id) step must do, going by the local set alone.
ToggleEffect(id) ==
  /\ remoteFav' = remoteFav
  /\ \E s \in InFlight' \ InFlight :
       /\ InFlight' = InFlight \cup {s}
       /\ calls'[s].ids = {id}
       /\ calls'[s].op = IF id \in fav.favorites THEN "remove" ELSE "add"
  /\ \A t \in InFlight : calls'[t].op = calls[t].op /\ calls'[t].ids = calls[t].ids
  /\ id \in fav'.favorites <=> id \notin fav.favorites

\* C16: a toggleFavorite(x) step leaves the server's set alone and issues
\* exactly one request: a remove of x, with x taken out of the local set in
\* the same step, when x is in the local set at the call, and an add of x,
\* with x put into the local set, when it is not.
ToggleFollowsLocalSet ==
  [][\A id \in FavIds : toggleFavorite(id) => ToggleEffect(id)]_vars

\* A toggleFavorite of a favorite awaits its remote remove: the id has left
\* the local set and the server still holds it.
ToggleFollowsLocalSetWitness ==
  /\ lastEvent.type = "call"
  /\ \E s \in InFlight :
       /\ calls[s].op = "remove" /\ calls[s].alone
       /\ calls[s].ids \subseteq calls[s].pre.favorites
       /\ calls[s].ids \cap fav.favorites = {}
       /\ calls[s].ids \subseteq remoteFav

\* C17: the step in which the remote call of a favorite mutation succeeds
\* leaves favorites, favoriteImages, error and isLoading as they were (for a
\* mutation no other has overlapped: as its optimistic step set them) and
\* issues no request.
SuccessKeepsOptimisticState ==
  [][\A s \in DOMAIN calls :
       (calls[s] # Free /\ calls'[s] = Free /\ lastEvent'.type = "ok") =>
          /\ fav' = fav
          /\ InFlight' = InFlight \ {s}
          /\ calls[s].alone =>
               /\ fav'.favorites = IF IsAdd(calls[s].op)
                                    THEN calls[s].pre.favorites \cup calls[s].ids
                                    ELSE calls[s].pre.favorites \ calls[s].ids
               /\ fav'.favoriteImages =
                    IF IsAdd(calls[s].op) THEN calls[s].pre.favoriteImages
                    ELSE SelectSeq(calls[s].pre.favoriteImages,
                                   LAMBDA id : id \notin calls[s].ids)]_vars

\* The only mutation made, one that changed the set, has succeeded: the
\* store holds the changed set and the server agrees.
SuccessKeepsOptimisticStateWitness ==
  /\ lastEvent.type = "ok" /\ ncalls = 1 /\ InFlight = {}
  /\ fav.favorites = remoteFav
  /\ Len(fav.favoriteImages) # Cardinality(fav.favorites)
  /\ fav.error = "null" /\ ~fav.isLoading

\* The requests issued for the first n items of the batch.
RECURSIVE NetCallsUpTo(_)
NetCallsUpTo(n) == IF n = 0 THEN 0 ELSE tasks[n - 1].netCalls + NetCallsUpTo(n - 1)

\* C18: uploadFiles eventually returns; the batch never issues more than
\* N * R requests; and when it has returned (the concurrency being one or
\* more) every task has been called, has returned and has its result
\* stored: none was skipped or dropped.
BatchRunsToSettlement ==
  /\ <>(ret.state = "returned")
  /\ [](NetCallsUpTo(N) <= N * retries)
  /\ []((ret.state = "returned" /\ concurrency >= 1) =>
          \A i \in DOMAIN tasks : tasks[i].phase = "stored" /\ results[i] # Hole)

\* A batch of two files with fewer workers than files has returned after
\* N * R requests, two for each file.
BatchRunsToSettlementWitness ==
  /\ ret.state = "returned" /\ N = 2 /\ concurrency = 1 /\ retries = 2
  /\ NetCallsUpTo(N) = N * retries
  /\ \A i \in DOMAIN tasks : tasks[i].phase = "stored"

\* The workers of each pool that are waiting for the task at index i.
UploadHolders(i) ==
  {w \in DOMAIN workers : workers[w].pc = "await_task" /\ workers[w].currentIndex = i}
PoolHolders(i) ==
  {w \in DOMAIN pworkers : pworkers[w].pc = "await_task" /\ pworkers[w].currentIndex = i}

\* C19: in both pools the cursor counts the claims made and the claimed
\* indices are exactly those below it, so no index is passed over and none
\* is claimed a second time; a claimed task that is not stored yet is held
\* by exactly one worker and a stored one by none; the stores counted equal
\* the tasks stored; and once the pool has returned (the limit being one or
\* more) every index has been claimed and stored.
EachIndexClaimedOnce ==
  /\ Cardinality(DOMAIN workers) = Min(concurrency, N)
  /\ Cardinality(DOMAIN pworkers) = Min(plimit, PN)
  /\ {i \in DOMAIN tasks : tasks[i].phase # "unclaimed"} = 0..(index - 1)
  /\ {i \in DOMAIN pstate : pstate[i].phase # "unclaimed"} = 0..(pindex - 1)
  /\ \A i \in DOMAIN tasks :
       Cardinality(UploadHolders(i)) = IF i \in UploadInFlight THEN 1 ELSE 0
  /\ \A i \in DOMAIN pstate :
       Cardinality(PoolHolders(i)) = IF i \in PoolInFlight THEN 1 ELSE 0
  /\ completed = Cardinality({i \in DOMAIN tasks : tasks[i].phase = "stored"})
  /\ (ret.state = "returned" /\ concurrency >= 1) =>
       \A i \in DOMAIN tasks : tasks[i].phase = "stored"
  /\ (pret.state = "returned" /\ plimit >= 1) =>
       \A i \in DOMAIN pstate : pstate[i].phase = "stored"

\* Two workers share three tasks: the first has stored task 0 and claimed
\* index 2 while the second still waits for task 1; and a batch of two
\* files has been run by two workers.
EachIndexClaimedOnceWitness ==
  \/ /\ PN = 3 /\ plimit = 2
     /\ pstate[0].phase = "stored" /\ pstate[1].phase = "running"
     /\ PoolHolders(2) = {1} /\ PoolHolders(1) = {2}
  \/ /\ N = 2 /\ concurrency = 1 /\ tasks[0].phase = "stored"
     /\ UploadHolders(1) = {1}

ReturnsOnlyWhenAllSettled ==
  /\ (ret.state = "returned" /\ concurrency >= 1) =>
       /\ UploadInFlight = {}
       /\ \A i \in DOMAIN tasks : tasks[i].phase # "unclaimed"
       /\ \A w \in DOMAIN workers : workers[w].pc = "done"
  /\ (pret.state = "returned" /\ plimit >= 1) =>
       /\ PoolInFlight = {}
       /\ \A i \in DOMAIN pstate : pstate[i].phase # "unclaimed"
       /\ \A w \in DOMAIN pworkers : pworkers[w].pc = "done"

\* Two workers and three tasks: the pool has returned after task 0 was
\* fulfilled and task 1 rejected, with the slots of tasks 1 and 2 filled.
ReturnsOnlyWhenAllSettledWitness ==
  /\ pret.state = "returned" /\ PN = 3 /\ plimit = 2
  /\ pret.value[1] # Hole /\ pret.value[2] # Hole
  /\ pstate[1].outcome = "rejected" /\ pstate[0].outcome = "fulfilled"

\* What a response without src does to item i: the attempt is logged as
\* failed, and the item goes to its backoff when attempts are left and
\* returns a failure Result on the last one, issuing no request in the step.
NoSrcIsAFailedAttempt(i) ==
  /\ tasks'[i].log = Append(tasks[i].log, "fail")
  /\ tasks'[i].netCalls = tasks[i].netCalls
  /\ IF tasks[i].attempt < retries - 1
     THEN tasks'[i].phase = "backoff"
     ELSE tasks'[i].phase = "returned" /\ ~tasks'[i].value.success

\* C22: in every state an item has issued at most R requests, one for each
\* attempt logged plus the one in flight; a success is the last entry of an
\* item's log and an item that has one issues nothing more; and a response
\* without a resource locator is a failed attempt, retried like a rejected
\* request.
AtMostRAttemptsNoneAfterSuccess ==
  /\ [](\A i \in DOMAIN tasks :
         LET t == tasks[i]
         IN /\ t.netCalls <= retries
            /\ t.netCalls = Len(t.log) + (IF t.phase = "uploading" THEN 1 ELSE 0)
            /\ \A k \in 1..Len(t.log) :
                 t.log[k] = "ok" => k = Len(t.log) /\ t.phase \in {"returned", "stored"})
  /\ [][\A i \in DOMAIN files : UploadFails(i, "nosrc") => NoSrcIsAFailedAttempt(i)]_vars

\* An item's first response had no src, its second request succeeded, and it
\* has returned after these two requests.
AtMostRAttemptsNoneAfterSuccessWitness ==
  \E i \in DOMAIN tasks :
    /\ tasks[i].log = <<"fail", "ok">> /\ tasks[i].netCalls = 2 /\ retries = 2
    /\ tasks[i].phase = "stored"

FiringsAtLeastDelayApart == ~delivered.tooSoon

\* C25: whenever the latest arguments given to throttled have not been
\* delivered, they are delivered later (by the timer or by flush, throttled
\* itself delivering at once); and no call made by the timer or by flush
\* carries arguments other than the latest given.
LastArgsDelivered ==
  /\ (delivered.owed ~> ~delivered.owed)
  /\ [](~delivered.stale)

\* The timer has delivered the arguments of the second of two invocations
\* made while the window was closed: the one it was set for was replaced.
LastArgsDeliveredWitness ==
  /\ ~delivered.owed /\ delivered.invoked # NullV
  /\ delivered.last = delivered.invoked
  /\ delivered.last.result = NullV
  /\ notifications = 2 /\ completed = 1 /\ ret = NoRet
  /\ throttle.timer = "none" /\ ~throttle.windowOpen

\* C26: flush does not call the callback when no firing is pending (no
\* timer is set).
FlushCallsOnlyWhenPending == ~delivered.idleFlush

\* C27: while an item is unsettled, the event last built from the bytes
\* uploaded so far, once delivered, carries the percent
\* min(99, floor(100 * uploaded / total)).  (uploadedSizeCache is the sum of
\* size_i * percent_i / 100, an item that has settled counting in full.)
PercentIsFloorCappedAt99 ==
  (/\ delivered.last # NullV /\ delivered.last = delivered.invoked
   /\ completed < N /\ totalSize > 0) =>
     delivered.last.percent = Min(99, (100 * uploadedSizeCache) \div totalSize)

\* The optimistic update of the in-flight mutation t shows in the store: an
\* id it added is present, or an id it removed is absent.
EffectVisible(t) ==
  \E id \in calls[t].ids :
    IF IsAdd(calls[t].op)
    THEN id \notin calls[t].oldFavorites /\ id \in fav.favorites
    ELSE id \in calls[t].oldFavorites /\ id \notin fav.favorites

\* C28: a mutation starts (and copies the store as its snapshot) only when
\* no in-flight mutation's optimistic update shows in the store; and the
\* rollback of a failed mutation changes the membership of none but the
\* mutation's own ids.
SnapshotsAreIsolated ==
  [][/\ ncalls' = ncalls + 1 => \A t \in InFlight : ~EffectVisible(t)
     /\ \A s \in DOMAIN calls :
          (\E kind \in RemoteFailures : RemoteFails(s, kind)) =>
             \A id \in FavIds \ calls[s].ids :
                (id \in fav'.favorites) = (id \in fav.favorites)]_vars

\* C29: when every request has been answered, the user's list holds an
\* entry for every file key that was stored.
UserListHoldsEveryStoredFile ==
  (\A r \in DOMAIN handlers : handlers[r].pc = "done") =>
     storedKeys \subseteq Range(userFilesKV)

\* C30: the selected ids are ids of listed images.
SelectionWithinImages == img.selectedImages \subseteq Range(img.images)

\* C31: the id of every entry of favoriteImages is a member of favorites.
FavoriteImagesWithinFavorites == Range(fav.favoriteImages) \subseteq fav.favorites

\* C32: when list requests have overlapped and all have settled, the last
\* one issued having been answered, images and pagination are those of the
\* response to the last one issued.
LatestResponseWins ==
  (/\ Len(fetching) >= 2 /\ AllFetchesSettled
   /\ fetching[Len(fetching)].value.success) =>
     /\ img.images = fetching[Len(fetching)].value.images
     /\ img.pagination = fetching[Len(fetching)].data.pagination

====
